---- MODULE Spec2Model ----
(***************************************************************************)
(* Bribehack accounting ledger (bribehack-contract/src/Bribehack.sol) as a *)
(* state machine.  There is one action per external function of the       *)
(* contract.  A transaction either commits all of its storage writes,     *)
(* value transfers and events, or it reverts and leaves the ledger as it   *)
(* was, handing only its error back to the caller.                         *)
(*                                                                         *)
(* Each function is translated by an operator of the same name and the    *)
(* same parameters, preceded by msg.sender and, for a payable function,   *)
(* msg.value.  The action named after it (Commit for commitToBounties,    *)
(* ...) draws the call's inputs and keeps the record of calls.            *)
(***************************************************************************)
EXTENDS Integers, Sequences, FiniteSets, TLC

-----------------------------------------------------------------------------
(* Bound of the model *)

\* Calls are made while the event log is shorter than this.
MaxEvents == 2

-----------------------------------------------------------------------------
(* Program constants *)

\* uint256 public constant MAX_COMMITMENTS = 3;
MAX_COMMITMENTS == 3

-----------------------------------------------------------------------------
(* Input domains *)

\* address(0)
ZeroAddr == "0x0"
\* Externally owned accounts that send transactions.
Addr == {"h1", "h2"}
\* The address the contract is deployed at, address(this).
ThisAddr == "ledger"
\* Candidate constructor arguments: the zero address and an endpoint contract.
EndpointArgs == {ZeroAddr, "endpoint"}
\* Bounty identifier strings: two that differ in letter case only.
BountyId == {"a", "A"}
\* (bountyIds, ensPseudonym, ipfsHash) argument triples of commitToBounties,
\* one for each list length 0 .. MAX_COMMITMENTS + 1: the empty list, every
\* accepted length and one over-long list.  Ids are out of alphabetical order
\* and repeat inside a list; every accepted triple differs from the others in
\* each of its three fields.
CommitArgs ==
    { << <<>>,                   "",            ""    >>,
      << <<"a">>,                "Neo.eth",     "QmA" >>,
      << <<"A", "a">>,           "",            "QmB" >>,
      << <<"a", "A", "a">>,      "Trinity.eth", ""    >>,
      << <<"A", "a", "A", "a">>, "Neo.eth",     "QmA" >> }
\* msg.value of sponsorBounty in wei: nothing attached, and two different
\* positive amounts.
Values == {0, 1, 2}
\* msg.value of bribeHacker in wei: nothing attached, and a positive amount.
BribeValues == {0, 2}
\* block.timestamp values of the blocks the transactions are mined in.
Timestamps == {1, 2}
\* LayerZero chain ids (uint16).
ChainIds == {101}
\* msg.value attached to sendCommitCrossChain as the relay fee, in wei.
Fees == {0, 1}

-----------------------------------------------------------------------------
(* State *)

VARIABLES
    deployed,               \* TRUE once the constructor has returned
    commitments,            \* mapping(address => Commitment)
    bounties,               \* mapping(string => Bounty)
    bribesByHacker,         \* mapping(address => Bribe[])
    hackerCommitmentCount,  \* mapping(address => uint256)
    lzEndpoint,             \* address public lzEndpoint
    balance,                \* address(this).balance
    events,                 \* the contract's event log, in emission order
    endpointCalls,          \* calls of ILayerZeroEndpoint.send that committed,
                            \* each with the length of the log when it was made
    now,                    \* block.timestamp of the current block
    last,                   \* what the latest call handed back to its caller
    call,                   \* the latest call made: function, sender, arguments
    history,                \* the calls that committed, constructor first
    store,                  \* the subgraph's entities, by type and id
    processed,              \* how many events of the log the subgraph has handled
    commitPage              \* the state of the commit form (CommitPage)

\* What a revert rolls back.
storage == <<commitments, bounties, bribesByHacker, hackerCommitmentCount,
             lzEndpoint, balance, events, endpointCalls>>
\* What lives off the chain: no function of the contract touches it.
offChain == <<store, processed, commitPage>>
\* What lives on the chain, with the blocks and the calls made.
onChain == <<deployed, commitments, bounties, bribesByHacker,
             hackerCommitmentCount, lzEndpoint, balance, events,
             endpointCalls, now, last, call, history>>
vars == <<deployed, commitments, bounties, bribesByHacker,
          hackerCommitmentCount, lzEndpoint, balance, events, endpointCalls,
          now, last, call, history, store, processed, commitPage>>

\* The subgraph's store before any event is handled: no entity of any type.
NoEntities ==
    [Commitment |-> <<>>, Hacker |-> <<>>, Bounty |-> <<>>, Bribe |-> <<>>,
     Sponsor |-> <<>>, GlobalStats |-> <<>>]

\* The commit form when the page is first rendered: the initial values of its
\* useState hooks, no wallet, a chain the contract is deployed on, and no
\* transaction written.
useState ==
    [selectedBounties |-> <<>>, ensName |-> "", ipfsHash |-> "",
     address |-> "", user |-> FALSE, wagmiConnected |-> FALSE,
     contractAddress |-> ThisAddr, written |-> <<>>, isConfirmed |-> FALSE]

\* Zero value of struct Commitment.
DefaultCommitment ==
    [hacker |-> ZeroAddr, bountyIds |-> <<>>, ensPseudonym |-> "",
     ipfsHash |-> "", timestamp |-> 0]
\* Zero value of struct Bounty.
DefaultBounty == [bountyId |-> "", prizePool |-> 0, sponsors |-> <<>>]

\* What a call hands back: err = "" and the returned value when it succeeded,
\* else the name of the error it reverted with and that error's arguments.
Outcome(err, args, ret) == [err |-> err, args |-> args, ret |-> ret]
Ok == Outcome("", <<>>, <<>>)

\* Faulty variant of Revert: the failure is also written to the event log.
Revert_LogsFailure(err, args) ==
    /\ last' = Outcome(err, args, <<>>)
    /\ events' = Append(events, [name |-> "Failed", error |-> err])
    /\ UNCHANGED <<commitments, bounties, bribesByHacker,
                   hackerCommitmentCount, lzEndpoint, balance, endpointCalls>>

\* revert E(args): every storage write, value transfer and event of the call
\* is undone; only the error reaches the caller.
Revert(err, args) ==
    /\ last' = Outcome(err, args, <<>>)
    /\ UNCHANGED storage

\* Book-keeping of an action: the call it made, appended to the history when
\* the call did not revert.
Called(c) ==
    /\ call' = c
    /\ history' = IF last'.err = "" THEN Append(history, c) ELSE history

-----------------------------------------------------------------------------
(* Construction *)

\* Faulty variant of constructor: the zero address is accepted.
constructor_NoZeroCheck(_lzEndpoint) ==
    /\ commitments = [h \in Addr |-> DefaultCommitment]
    /\ bounties = [id \in BountyId |-> DefaultBounty]
    /\ bribesByHacker = [h \in Addr |-> <<>>]
    /\ hackerCommitmentCount = [h \in Addr |-> 0]
    /\ balance = 0
    /\ events = <<>>
    /\ endpointCalls = <<>>
    /\ deployed = TRUE
    /\ lzEndpoint = _lzEndpoint
    /\ last = Ok

\* constructor(address _lzEndpoint)
constructor(_lzEndpoint) ==
    /\ commitments = [h \in Addr |-> DefaultCommitment]
    /\ bounties = [id \in BountyId |-> DefaultBounty]
    /\ bribesByHacker = [h \in Addr |-> <<>>]
    /\ hackerCommitmentCount = [h \in Addr |-> 0]
    /\ balance = 0
    /\ events = <<>>
    /\ endpointCalls = <<>>
    /\ IF _lzEndpoint = ZeroAddr
       THEN /\ deployed = FALSE
            /\ lzEndpoint = ZeroAddr
            /\ last = Outcome("InvalidLayerZeroEndpoint", <<>>, <<>>)
       ELSE /\ deployed = TRUE
            /\ lzEndpoint = _lzEndpoint
            /\ last = Ok

Init ==
    /\ now = CHOOSE t \in Timestamps : \A u \in Timestamps : t <= u
    /\ \E _lzEndpoint \in EndpointArgs :
          /\ constructor(_lzEndpoint)
          /\ call = [op |-> "constructor", lzEndpoint |-> _lzEndpoint]
          /\ history = IF last.err = "" THEN <<call>> ELSE <<>>
    /\ store = NoEntities
    /\ processed = 0
    /\ commitPage = useState

-----------------------------------------------------------------------------
(* Mutating functions *)

\* Faulty variant of ExceedsMax: a limit on the size the stored commitment
\* would have, ignoring the caller's stored count.
ExceedsFinalSizeOnly(currentCommitments, newCommitments) ==
    newCommitments > MAX_COMMITMENTS

\* The throttle of commitToBounties:
\*   if (currentCommitments + newCommitments > MAX_COMMITMENTS)
ExceedsMax(currentCommitments, newCommitments) ==
    currentCommitments + newCommitments > MAX_COMMITMENTS

\* Faulty variant of StoreCommitment: the new ids are added to the stored ones.
StoreCommitment_Merged(sender, bountyIds, ensPseudonym, ipfsHash) ==
    /\ commitments' = [commitments EXCEPT ![sender] =
           [hacker |-> sender,
            bountyIds |-> commitments[sender].bountyIds \o bountyIds,
            ensPseudonym |-> ensPseudonym, ipfsHash |-> ipfsHash,
            timestamp |-> now]]
    /\ hackerCommitmentCount' =
           [hackerCommitmentCount EXCEPT ![sender] = Len(bountyIds)]
    /\ events' = Append(events,
           [name |-> "NewCommitment", hacker |-> sender,
            bountyIds |-> bountyIds, ipfsHash |-> ipfsHash])
    /\ last' = Ok
    /\ UNCHANGED <<bounties, bribesByHacker, lzEndpoint, balance, endpointCalls>>

\* Faulty variant of StoreCommitment: the count is incremented, not set.
StoreCommitment_CountAdded(sender, bountyIds, ensPseudonym, ipfsHash) ==
    /\ commitments' = [commitments EXCEPT ![sender] =
           [hacker |-> sender, bountyIds |-> bountyIds,
            ensPseudonym |-> ensPseudonym, ipfsHash |-> ipfsHash,
            timestamp |-> now]]
    /\ hackerCommitmentCount' =
           [hackerCommitmentCount EXCEPT ![sender] = @ + Len(bountyIds)]
    /\ events' = Append(events,
           [name |-> "NewCommitment", hacker |-> sender,
            bountyIds |-> bountyIds, ipfsHash |-> ipfsHash])
    /\ last' = Ok
    /\ UNCHANGED <<bounties, bribesByHacker, lzEndpoint, balance, endpointCalls>>

\* Faulty variant of StoreCommitment: an empty pseudonym keeps the stored one.
StoreCommitment_KeepsName(sender, bountyIds, ensPseudonym, ipfsHash) ==
    /\ commitments' = [commitments EXCEPT ![sender] =
           [hacker |-> sender, bountyIds |-> bountyIds,
            ensPseudonym |-> IF ensPseudonym = ""
                             THEN commitments[sender].ensPseudonym
                             ELSE ensPseudonym,
            ipfsHash |-> ipfsHash, timestamp |-> now]]
    /\ hackerCommitmentCount' =
           [hackerCommitmentCount EXCEPT ![sender] = Len(bountyIds)]
    /\ events' = Append(events,
           [name |-> "NewCommitment", hacker |-> sender,
            bountyIds |-> bountyIds, ipfsHash |-> ipfsHash])
    /\ last' = Ok
    /\ UNCHANGED <<bounties, bribesByHacker, lzEndpoint, balance, endpointCalls>>

\* Faulty variant of StoreCommitment: one count is shared by all hackers.
StoreCommitment_SharedCount(sender, bountyIds, ensPseudonym, ipfsHash) ==
    /\ commitments' = [commitments EXCEPT ![sender] =
           [hacker |-> sender, bountyIds |-> bountyIds,
            ensPseudonym |-> ensPseudonym, ipfsHash |-> ipfsHash,
            timestamp |-> now]]
    /\ hackerCommitmentCount' =
           [h \in DOMAIN hackerCommitmentCount |-> Len(bountyIds)]
    /\ events' = Append(events,
           [name |-> "NewCommitment", hacker |-> sender,
            bountyIds |-> bountyIds, ipfsHash |-> ipfsHash])
    /\ last' = Ok
    /\ UNCHANGED <<bounties, bribesByHacker, lzEndpoint, balance, endpointCalls>>

\* The writes of commitToBounties once its checks have passed:
\*   commitments[msg.sender] = Commitment({...});
\*   hackerCommitmentCount[msg.sender] = newCommitments;
\*   emit NewCommitment(msg.sender, bountyIds, ipfsHash);
StoreCommitment(sender, bountyIds, ensPseudonym, ipfsHash) ==
    /\ commitments' = [commitments EXCEPT ![sender] =
           [hacker |-> sender, bountyIds |-> bountyIds,
            ensPseudonym |-> ensPseudonym, ipfsHash |-> ipfsHash,
            timestamp |-> now]]
    /\ hackerCommitmentCount' =
           [hackerCommitmentCount EXCEPT ![sender] = Len(bountyIds)]
    /\ events' = Append(events,
           [name |-> "NewCommitment", hacker |-> sender,
            bountyIds |-> bountyIds, ipfsHash |-> ipfsHash])
    /\ last' = Ok
    /\ UNCHANGED <<bounties, bribesByHacker, lzEndpoint, balance, endpointCalls>>

\* Faulty variant of commitToBounties: the empty list is not rejected.
commitToBounties_NoEmptyCheck(sender, bountyIds, ensPseudonym, ipfsHash) ==
    LET newCommitments == Len(bountyIds)
        currentCommitments == hackerCommitmentCount[sender]
    IN  IF ExceedsMax(currentCommitments, newCommitments)
        THEN Revert("ExceedsMaxCommitments",
                    <<currentCommitments, newCommitments, MAX_COMMITMENTS>>)
        ELSE StoreCommitment(sender, bountyIds, ensPseudonym, ipfsHash)

\* function commitToBounties(string[] bountyIds, string ensPseudonym, string ipfsHash)
commitToBounties(sender, bountyIds, ensPseudonym, ipfsHash) ==
    LET newCommitments == Len(bountyIds)
        currentCommitments == hackerCommitmentCount[sender]
    IN  IF newCommitments = 0
        THEN Revert("NoBountiesProvided", <<>>)
        ELSE IF ExceedsMax(currentCommitments, newCommitments)
        THEN Revert("ExceedsMaxCommitments",
                    <<currentCommitments, newCommitments, MAX_COMMITMENTS>>)
        ELSE StoreCommitment(sender, bountyIds, ensPseudonym, ipfsHash)

Commit ==
    /\ deployed
    /\ Len(events) < MaxEvents
    /\ \E sender \in Addr, args \in CommitArgs :
          /\ commitToBounties(sender, args[1], args[2], args[3])
          /\ Called([op |-> "commitToBounties", sender |-> sender,
                     bountyIds |-> args[1], ensPseudonym |-> args[2],
                     ipfsHash |-> args[3], time |-> now])
    /\ UNCHANGED <<deployed, now, offChain>>

\* Faulty variant of NameOnFirst: the record is named while its pool is not
\* empty, which is never at the first sponsorship.
NameOnFirst_WhenFunded(bounty, bountyId) ==
    IF bounty.prizePool # 0
    THEN [bounty EXCEPT !.bountyId = bountyId]
    ELSE bounty

\* if (bounty.prizePool == 0) { bounty.bountyId = bountyId; }
NameOnFirst(bounty, bountyId) ==
    IF bounty.prizePool = 0
    THEN [bounty EXCEPT !.bountyId = bountyId]
    ELSE bounty

\* Faulty variant of AddSponsorship: a sender already listed is not appended.
AddSponsorship_Dedup(sender, value, bountyId) ==
    LET bounty == bounties[bountyId]
        named == IF bounty.prizePool = 0
                 THEN [bounty EXCEPT !.bountyId = bountyId]
                 ELSE bounty
        present == \E i \in 1..Len(named.sponsors) : named.sponsors[i] = sender
    IN  /\ bounties' = [bounties EXCEPT ![bountyId] =
               [named EXCEPT !.sponsors = IF present THEN named.sponsors
                                          ELSE Append(named.sponsors, sender),
                             !.prizePool = named.prizePool + value]]
        /\ balance' = balance + value
        /\ events' = Append(events,
               [name |-> "BountySponsored", bountyId |-> bountyId,
                sponsor |-> sender, amount |-> value])
        /\ last' = Ok
        /\ UNCHANGED <<commitments, bribesByHacker, hackerCommitmentCount,
                       lzEndpoint, endpointCalls>>

\* Faulty variant of AddSponsorship: the pool is set to the value, not raised.
AddSponsorship_PoolSet(sender, value, bountyId) ==
    LET bounty == bounties[bountyId]
        named == IF bounty.prizePool = 0
                 THEN [bounty EXCEPT !.bountyId = bountyId]
                 ELSE bounty
    IN  /\ bounties' = [bounties EXCEPT ![bountyId] =
               [named EXCEPT !.sponsors = Append(named.sponsors, sender),
                             !.prizePool = value]]
        /\ balance' = balance + value
        /\ events' = Append(events,
               [name |-> "BountySponsored", bountyId |-> bountyId,
                sponsor |-> sender, amount |-> value])
        /\ last' = Ok
        /\ UNCHANGED <<commitments, bribesByHacker, hackerCommitmentCount,
                       lzEndpoint, endpointCalls>>

\* The writes of sponsorBounty once its check has passed:
\*   Bounty storage bounty = bounties[bountyId];
\*   if (bounty.prizePool == 0) { bounty.bountyId = bountyId; }
\*   bounty.sponsors.push(msg.sender);
\*   bounty.prizePool += msg.value;
\*   emit BountySponsored(bountyId, msg.sender, msg.value);
\* (+= is checked uint256 arithmetic; the sum of at most MaxEvents values is
\* far from 2^256, so the overflow panic cannot happen.)
AddSponsorship(sender, value, bountyId) ==
    LET bounty == bounties[bountyId]
        named == NameOnFirst(bounty, bountyId)
    IN  /\ bounties' = [bounties EXCEPT ![bountyId] =
               [named EXCEPT !.sponsors = Append(named.sponsors, sender),
                             !.prizePool = named.prizePool + value]]
        /\ balance' = balance + value
        /\ events' = Append(events,
               [name |-> "BountySponsored", bountyId |-> bountyId,
                sponsor |-> sender, amount |-> value])
        /\ last' = Ok
        /\ UNCHANGED <<commitments, bribesByHacker, hackerCommitmentCount,
                       lzEndpoint, endpointCalls>>

\* function sponsorBounty(string bountyId) payable
sponsorBounty(sender, value, bountyId) ==
    IF value = 0
    THEN Revert("ZeroSponsorship", <<>>)
    ELSE AddSponsorship(sender, value, bountyId)

Sponsor ==
    /\ deployed
    /\ Len(events) < MaxEvents
    /\ \E sender \in Addr, value \in Values, bountyId \in BountyId :
          /\ sponsorBounty(sender, value, bountyId)
          /\ Called([op |-> "sponsorBounty", sender |-> sender,
                     value |-> value, bountyId |-> bountyId])
    /\ UNCHANGED <<deployed, now, offChain>>

\* Faulty variant of RecordBribe: briber and hacker change places in the record.
RecordBribe_PartiesSwapped(sender, value, hacker, bountyId) ==
    LET newBribe == [briber |-> hacker, hacker |-> sender,
                     bountyId |-> bountyId, amount |-> value,
                     timestamp |-> now]
    IN  /\ bribesByHacker' = [bribesByHacker EXCEPT ![hacker] =
               Append(bribesByHacker[hacker], newBribe)]
        /\ balance' = balance + value
        /\ events' = Append(events,
               [name |-> "HackerBribed", briber |-> sender, hacker |-> hacker,
                bountyId |-> bountyId, amount |-> value])
        /\ last' = Ok
        /\ UNCHANGED <<commitments, bounties, hackerCommitmentCount,
                       lzEndpoint, endpointCalls>>

\* Faulty variant of RecordBribe: the new record replaces the hacker's list.
RecordBribe_LatestOnly(sender, value, hacker, bountyId) ==
    LET newBribe == [briber |-> sender, hacker |-> hacker,
                     bountyId |-> bountyId, amount |-> value,
                     timestamp |-> now]
    IN  /\ bribesByHacker' = [bribesByHacker EXCEPT ![hacker] = <<newBribe>>]
        /\ balance' = balance + value
        /\ events' = Append(events,
               [name |-> "HackerBribed", briber |-> sender, hacker |-> hacker,
                bountyId |-> bountyId, amount |-> value])
        /\ last' = Ok
        /\ UNCHANGED <<commitments, bounties, hackerCommitmentCount,
                       lzEndpoint, endpointCalls>>

\* Faulty variant of RecordBribe: the bribe also names the Bounty record.
RecordBribe_NamesBounty(sender, value, hacker, bountyId) ==
    LET newBribe == [briber |-> sender, hacker |-> hacker,
                     bountyId |-> bountyId, amount |-> value,
                     timestamp |-> now]
    IN  /\ bribesByHacker' = [bribesByHacker EXCEPT ![hacker] =
               Append(bribesByHacker[hacker], newBribe)]
        /\ bounties' = [bounties EXCEPT ![bountyId].bountyId = bountyId]
        /\ balance' = balance + value
        /\ events' = Append(events,
               [name |-> "HackerBribed", briber |-> sender, hacker |-> hacker,
                bountyId |-> bountyId, amount |-> value])
        /\ last' = Ok
        /\ UNCHANGED <<commitments, hackerCommitmentCount, lzEndpoint,
                       endpointCalls>>

\* Faulty variant of RecordBribe: the bribe is added to the named bounty's pool.
RecordBribe_FundsBounty(sender, value, hacker, bountyId) ==
    LET newBribe == [briber |-> sender, hacker |-> hacker,
                     bountyId |-> bountyId, amount |-> value,
                     timestamp |-> now]
    IN  /\ bribesByHacker' = [bribesByHacker EXCEPT ![hacker] =
               Append(bribesByHacker[hacker], newBribe)]
        /\ bounties' = [bounties EXCEPT ![bountyId].prizePool = @ + value]
        /\ balance' = balance + value
        /\ events' = Append(events,
               [name |-> "HackerBribed", briber |-> sender, hacker |-> hacker,
                bountyId |-> bountyId, amount |-> value])
        /\ last' = Ok
        /\ UNCHANGED <<commitments, hackerCommitmentCount, lzEndpoint,
                       endpointCalls>>

\* Faulty variant of RecordBribe: the bribe is stored without an event.
RecordBribe_Silent(sender, value, hacker, bountyId) ==
    LET newBribe == [briber |-> sender, hacker |-> hacker,
                     bountyId |-> bountyId, amount |-> value,
                     timestamp |-> now]
    IN  /\ bribesByHacker' = [bribesByHacker EXCEPT ![hacker] =
               Append(bribesByHacker[hacker], newBribe)]
        /\ balance' = balance + value
        /\ last' = Ok
        /\ UNCHANGED <<commitments, bounties, hackerCommitmentCount,
                       lzEndpoint, endpointCalls, events>>

\* Faulty variant of RecordBribe: the bribe is filed under the briber.
RecordBribe_KeyedByBriber(sender, value, hacker, bountyId) ==
    LET newBribe == [briber |-> sender, hacker |-> hacker,
                     bountyId |-> bountyId, amount |-> value,
                     timestamp |-> now]
    IN  /\ bribesByHacker' = [bribesByHacker EXCEPT ![sender] =
               Append(bribesByHacker[sender], newBribe)]
        /\ balance' = balance + value
        /\ events' = Append(events,
               [name |-> "HackerBribed", briber |-> sender, hacker |-> hacker,
                bountyId |-> bountyId, amount |-> value])
        /\ last' = Ok
        /\ UNCHANGED <<commitments, bounties, hackerCommitmentCount,
                       lzEndpoint, endpointCalls>>

\* Faulty variant of RecordBribe: the newest bribe is put first.
RecordBribe_NewestFirst(sender, value, hacker, bountyId) ==
    LET newBribe == [briber |-> sender, hacker |-> hacker,
                     bountyId |-> bountyId, amount |-> value,
                     timestamp |-> now]
    IN  /\ bribesByHacker' = [bribesByHacker EXCEPT ![hacker] =
               <<newBribe>> \o bribesByHacker[hacker]]
        /\ balance' = balance + value
        /\ events' = Append(events,
               [name |-> "HackerBribed", briber |-> sender, hacker |-> hacker,
                bountyId |-> bountyId, amount |-> value])
        /\ last' = Ok
        /\ UNCHANGED <<commitments, bounties, hackerCommitmentCount,
                       lzEndpoint, endpointCalls>>

\* The writes of bribeHacker once its check has passed:
\*   Bribe memory newBribe = Bribe({...});
\*   bribesByHacker[hacker].push(newBribe);
\*   emit HackerBribed(msg.sender, hacker, bountyId, msg.value);
RecordBribe(sender, value, hacker, bountyId) ==
    LET newBribe == [briber |-> sender, hacker |-> hacker,
                     bountyId |-> bountyId, amount |-> value,
                     timestamp |-> now]
    IN  /\ bribesByHacker' = [bribesByHacker EXCEPT ![hacker] =
               Append(bribesByHacker[hacker], newBribe)]
        /\ balance' = balance + value
        /\ events' = Append(events,
               [name |-> "HackerBribed", briber |-> sender, hacker |-> hacker,
                bountyId |-> bountyId, amount |-> value])
        /\ last' = Ok
        /\ UNCHANGED <<commitments, bounties, hackerCommitmentCount,
                       lzEndpoint, endpointCalls>>

\* function bribeHacker(address hacker, string bountyId) payable
bribeHacker(sender, value, hacker, bountyId) ==
    IF value = 0
    THEN Revert("ZeroBribe", <<>>)
    ELSE RecordBribe(sender, value, hacker, bountyId)

Bribe ==
    /\ deployed
    /\ Len(events) < MaxEvents
    /\ \E sender \in Addr, value \in BribeValues, hacker \in Addr,
          bountyId \in BountyId :
          /\ bribeHacker(sender, value, hacker, bountyId)
          /\ Called([op |-> "bribeHacker", sender |-> sender,
                     value |-> value, hacker |-> hacker,
                     bountyId |-> bountyId, time |-> now])
    /\ UNCHANGED <<deployed, now, offChain>>

-----------------------------------------------------------------------------
(* LayerZero mock functions *)

\* abi.encode(address, string): the address word, the offset of the string's
\* tail (two head words = 0x40 bytes), the string's length and its bytes.
abi_encode(a, s) == <<a, 64, Len(s), s>>
\* abi.encodePacked(address): the bare 20 bytes of the address.
abi_encodePacked(a) == <<a>>
\* Whether abi.decode(payload, (address, string)) succeeds.
abi_decodable(payload) ==
    /\ Len(payload) = 4
    /\ payload[2] = 64
    /\ payload[3] = Len(payload[4])
\* abi.decode(payload, (address, string))
abi_decode(payload) == <<payload[1], payload[4]>>

\* Payloads handed to lzReceive: two well-formed ones and the empty bytes.
LzPayloads == { abi_encode("h1", "a"), abi_encode("h2", "A"), <<>> }

\* Faulty variant of lzReceive: only the endpoint may deliver a message.
lzReceive_EndpointOnly(sender, _payload) ==
    IF sender # lzEndpoint
    THEN Revert("NotEndpoint", <<>>)
    ELSE IF ~abi_decodable(_payload)
    THEN Revert("DecodeFailed", <<>>)
    ELSE LET decoded == abi_decode(_payload)
         IN  /\ events' = Append(events,
                    [name |-> "CrossChainSnapshot", hacker |-> decoded[1],
                     bountyId |-> decoded[2]])
             /\ last' = Ok
             /\ UNCHANGED <<commitments, bounties, bribesByHacker,
                            hackerCommitmentCount, lzEndpoint, balance,
                            endpointCalls>>

\* function lzReceive(uint16, bytes, uint64, bytes _payload) external
\* (msg.sender is not looked at: any account may call it)
lzReceive(sender, _payload) ==
    IF ~abi_decodable(_payload)
    THEN Revert("DecodeFailed", <<>>)
    ELSE LET decoded == abi_decode(_payload)
         IN  /\ events' = Append(events,
                    [name |-> "CrossChainSnapshot", hacker |-> decoded[1],
                     bountyId |-> decoded[2]])
             /\ last' = Ok
             /\ UNCHANGED <<commitments, bounties, bribesByHacker,
                            hackerCommitmentCount, lzEndpoint, balance,
                            endpointCalls>>

LzReceive ==
    /\ deployed
    /\ Len(events) < MaxEvents
    /\ \E sender \in Addr \cup {lzEndpoint}, _payload \in LzPayloads :
          /\ lzReceive(sender, _payload)
          /\ Called([op |-> "lzReceive", sender |-> sender,
                     payload |-> _payload])
    /\ UNCHANGED <<deployed, now, offChain>>

\* Faulty variant of BalanceAfterSend: the fee stays with the ledger.
BalanceAfterSend_FeeKept(value) == balance + value

\* address(this).balance after send{value: msg.value}(...) has returned:
\* msg.value came in with the call and left with the send.
BalanceAfterSend(value) == balance + value - value

\* Faulty variant of sendCommitCrossChain: the snapshot event is emitted first
\* and LZMessageSent only after the endpoint has returned.
sendCommitCrossChain_SnapshotFirst(sender, value, _dstChainId, _bountyId, endpointAccepts) ==
    LET payload == abi_encode(sender, _bountyId)
        destination == abi_encodePacked(ThisAddr)
    IN  IF ~endpointAccepts
        THEN Revert("EndpointReverted", <<>>)
        ELSE /\ events' = events \o
                    << [name |-> "CrossChainSnapshot", hacker |-> sender,
                        bountyId |-> _bountyId],
                       [name |-> "LZMessageSent", dstChainId |-> _dstChainId,
                        destination |-> destination, payload |-> payload] >>
             /\ endpointCalls' = Append(endpointCalls,
                    [endpoint |-> lzEndpoint, value |-> value,
                     dstChainId |-> _dstChainId, destination |-> destination,
                     payload |-> payload, refundAddress |-> sender,
                     zroPaymentAddress |-> ZeroAddr, adapterParams |-> <<>>,
                     eventsBefore |-> Len(events) + 1])
             /\ balance' = BalanceAfterSend(value)
             /\ last' = Ok
             /\ UNCHANGED <<commitments, bounties, bribesByHacker,
                            hackerCommitmentCount, lzEndpoint>>

\* Faulty variant of sendCommitCrossChain: a failure of the endpoint is caught,
\* the call returns and keeps its first event and the fee.
sendCommitCrossChain_CatchesFailure(sender, value, _dstChainId, _bountyId, endpointAccepts) ==
    LET payload == abi_encode(sender, _bountyId)
        destination == abi_encodePacked(ThisAddr)
        sent == [name |-> "LZMessageSent", dstChainId |-> _dstChainId,
                 destination |-> destination, payload |-> payload]
    IN  IF ~endpointAccepts
        THEN /\ events' = Append(events, sent)
             /\ balance' = balance + value
             /\ last' = Ok
             /\ UNCHANGED <<commitments, bounties, bribesByHacker,
                            hackerCommitmentCount, lzEndpoint, endpointCalls>>
        ELSE /\ events' = events \o
                    << sent,
                       [name |-> "CrossChainSnapshot", hacker |-> sender,
                        bountyId |-> _bountyId] >>
             /\ endpointCalls' = Append(endpointCalls,
                    [endpoint |-> lzEndpoint, value |-> value,
                     dstChainId |-> _dstChainId, destination |-> destination,
                     payload |-> payload, refundAddress |-> sender,
                     zroPaymentAddress |-> ZeroAddr, adapterParams |-> <<>>,
                     eventsBefore |-> Len(events) + 1])
             /\ balance' = BalanceAfterSend(value)
             /\ last' = Ok
             /\ UNCHANGED <<commitments, bounties, bribesByHacker,
                            hackerCommitmentCount, lzEndpoint>>

\* function sendCommitCrossChain(uint16 _dstChainId, string _bountyId) payable
\* endpointAccepts: whether ILayerZeroEndpoint(lzEndpoint).send returns; the
\* endpoint is foreign code, so either outcome is possible.
sendCommitCrossChain(sender, value, _dstChainId, _bountyId, endpointAccepts) ==
    LET payload == abi_encode(sender, _bountyId)
        destination == abi_encodePacked(ThisAddr)
    IN  IF ~endpointAccepts
        THEN Revert("EndpointReverted", <<>>)
        ELSE /\ events' = events \o
                    << [name |-> "LZMessageSent", dstChainId |-> _dstChainId,
                        destination |-> destination, payload |-> payload],
                       [name |-> "CrossChainSnapshot", hacker |-> sender,
                        bountyId |-> _bountyId] >>
             /\ endpointCalls' = Append(endpointCalls,
                    [endpoint |-> lzEndpoint, value |-> value,
                     dstChainId |-> _dstChainId, destination |-> destination,
                     payload |-> payload, refundAddress |-> sender,
                     zroPaymentAddress |-> ZeroAddr, adapterParams |-> <<>>,
                     eventsBefore |-> Len(events) + 1])
             /\ balance' = BalanceAfterSend(value)
             /\ last' = Ok
             /\ UNCHANGED <<commitments, bounties, bribesByHacker,
                            hackerCommitmentCount, lzEndpoint>>

SendCommitCrossChain ==
    /\ deployed
    /\ Len(events) < MaxEvents
    /\ \E sender \in Addr, value \in Fees, _dstChainId \in ChainIds,
          _bountyId \in BountyId, endpointAccepts \in BOOLEAN :
          /\ sendCommitCrossChain(sender, value, _dstChainId, _bountyId,
                                  endpointAccepts)
          /\ Called([op |-> "sendCommitCrossChain", sender |-> sender,
                     value |-> value, dstChainId |-> _dstChainId,
                     bountyId |-> _bountyId])
    /\ UNCHANGED <<deployed, now, offChain>>

-----------------------------------------------------------------------------
(* View functions *)

\* function getCommitment(address _hacker) view
getCommitment(_hacker) == commitments[_hacker]
\* function getBounty(string _bountyId) view
getBounty(_bountyId) == bounties[_bountyId]
\* function getBribes(address _hacker) view
getBribes(_hacker) == bribesByHacker[_hacker]

\* A call of a view function: it returns the stored value and writes nothing.
GetCommitment ==
    /\ deployed
    /\ Len(events) < MaxEvents
    /\ \E _hacker \in Addr :
          /\ last' = Outcome("", <<>>, getCommitment(_hacker))
          /\ call' = [op |-> "getCommitment", key |-> _hacker]
    /\ UNCHANGED <<deployed, storage, now, history, offChain>>

GetBounty ==
    /\ deployed
    /\ Len(events) < MaxEvents
    /\ \E _bountyId \in BountyId :
          /\ last' = Outcome("", <<>>, getBounty(_bountyId))
          /\ call' = [op |-> "getBounty", key |-> _bountyId]
    /\ UNCHANGED <<deployed, storage, now, history, offChain>>

GetBribes ==
    /\ deployed
    /\ Len(events) < MaxEvents
    /\ \E _hacker \in Addr :
          /\ last' = Outcome("", <<>>, getBribes(_hacker))
          /\ call' = [op |-> "getBribes", key |-> _hacker]
    /\ UNCHANGED <<deployed, storage, now, history, offChain>>

-----------------------------------------------------------------------------
(* Environment and specification *)

\* A new block: block.timestamp moves forward.
Tick ==
    /\ deployed
    /\ Len(events) < MaxEvents
    /\ \E t \in Timestamps : t > now /\ now' = t
    /\ UNCHANGED <<deployed, storage, last, call, history, offChain>>

Next ==
    \/ Commit
    \/ Sponsor
    \/ Bribe
    \/ LzReceive
    \/ SendCommitCrossChain
    \/ GetCommitment
    \/ GetBounty
    \/ GetBribes
    \/ Tick

Spec == Init /\ [][Next]_vars

-----------------------------------------------------------------------------
(* Helpers of the properties *)

\* The entries of the history that satisfy Test, in order.
Calls(Test(_)) == SelectSeq(history, Test)

\* Whether s is an initial segment of t.
IsPrefix(s, t) == Len(s) <= Len(t) /\ SubSeq(t, 1, Len(s)) = s

\* Whether the step is a call of the function named op, through the action
\* of that function: every call records itself in call and stays in its
\* block, and the only other step, Tick, moves to a new block.
IsCallOf(op) == call'.op = op /\ now' = now

\* IsCallOf tells the steps of each action apart.
CallStepsAreActions ==
    [][ /\ IsCallOf("commitToBounties") <=>
              (call'.op = "commitToBounties" /\ Commit)
        /\ IsCallOf("sponsorBounty") <=> (call'.op = "sponsorBounty" /\ Sponsor)
        /\ IsCallOf("bribeHacker") <=> (call'.op = "bribeHacker" /\ Bribe)
        /\ IsCallOf("lzReceive") <=> (call'.op = "lzReceive" /\ LzReceive)
        /\ IsCallOf("sendCommitCrossChain") <=>
              (call'.op = "sendCommitCrossChain" /\ SendCommitCrossChain)
        /\ IsCallOf("getCommitment") <=>
              (call'.op = "getCommitment" /\ GetCommitment)
        /\ IsCallOf("getBounty") <=> (call'.op = "getBounty" /\ GetBounty)
        /\ IsCallOf("getBribes") <=> (call'.op = "getBribes" /\ GetBribes)
        /\ (now' # now) <=> Tick ]_vars

IsCommitBy(c, h) == c.op = "commitToBounties" /\ c.sender = h

\* The commits of hacker h that succeeded, in order.
CommitsBy(h) == LET Test(c) == IsCommitBy(c, h) IN Calls(Test)

-----------------------------------------------------------------------------
(* commitToBounties *)

\* C1: whenever commitToBounties(ids, ens, ipfs) called by h with 1..3 ids
\* succeeds, getCommitment(h).bountyIds afterwards is exactly ids (same
\* elements, same order, nothing merged from an earlier commitment),
\* getCommitment(h).hacker is h and hackerCommitmentCount[h] is the length of
\* ids.
C1_CommitStoresSubmittedIds ==
    (call.op = "commitToBounties" /\ last.err = ""
        /\ Len(call.bountyIds) \in 1..3) =>
       /\ getCommitment(call.sender).bountyIds = call.bountyIds
       /\ getCommitment(call.sender).hacker = call.sender
       /\ hackerCommitmentCount[call.sender] = Len(call.bountyIds)

\* C1's case: a hacker's second successful commit, with other ids than the
\* first, has just been stored.
C1_Witness ==
    /\ call.op = "commitToBounties" /\ last.err = ""
    /\ Len(CommitsBy(call.sender)) = 2
    /\ CommitsBy(call.sender)[1].bountyIds = <<"A", "a">>
    /\ CommitsBy(call.sender)[2].bountyIds = <<"a">>
    /\ getCommitment(call.sender).bountyIds = <<"a">>

\* C2: a commitToBounties call with N >= 1 ids by a caller whose stored count
\* is C fails with ExceedsMaxCommitments(C, N, 3), changing nothing, exactly
\* when C + N > 3; when C + N <= 3 it succeeds.
C2_AdditiveThrottle ==
    [][ IsCallOf("commitToBounties") =>
          LET C == hackerCommitmentCount[call'.sender]
              N == Len(call'.bountyIds)
          IN  N >= 1 =>
                IF C + N > 3
                THEN /\ last' = Outcome("ExceedsMaxCommitments", <<C, N, 3>>, <<>>)
                     /\ UNCHANGED storage
                ELSE last'.err = "" ]_vars

\* C2's case: a caller holding 3 ids submits one more id and is rejected with
\* ExceedsMaxCommitments(3, 1, 3), although 1 <= 3.
C2_Witness ==
    /\ call.op = "commitToBounties"
    /\ Len(call.bountyIds) = 1
    /\ hackerCommitmentCount[call.sender] = 3
    /\ last = Outcome("ExceedsMaxCommitments", <<3, 1, 3>>, <<>>)

\* C3: commitToBounties with an empty list fails with NoBountiesProvided for
\* any caller in any state (also a caller whose stored count is 3), and leaves
\* the ledger unchanged.
C3_EmptyListRejected ==
    [][ (IsCallOf("commitToBounties") /\ call'.bountyIds = <<>>) =>
          /\ last' = Outcome("NoBountiesProvided", <<>>, <<>>)
          /\ UNCHANGED storage ]_vars

\* C3's case: a caller whose stored count is already 3 submits the empty list.
C3_Witness ==
    /\ call.op = "commitToBounties"
    /\ call.bountyIds = <<>>
    /\ hackerCommitmentCount[call.sender] = 3
    /\ last.err = "NoBountiesProvided"

\* C4: in every state and for every hacker h, hackerCommitmentCount[h] <= 3,
\* the stored commitment holds at most 3 bounty ids, and the count equals the
\* number of stored ids.
C4_MaxThree ==
    \A h \in Addr :
       /\ hackerCommitmentCount[h] <= 3
       /\ Len(getCommitment(h).bountyIds) <= 3
       /\ hackerCommitmentCount[h] = Len(getCommitment(h).bountyIds)

\* C4's case: one hacker stores the maximum of 3 ids while another stores 2.
C4_Witness ==
    \E h, g \in Addr :
       /\ Len(getCommitment(h).bountyIds) = 3
       /\ hackerCommitmentCount[h] = 3
       /\ hackerCommitmentCount[g] = 2

\* C5 as claimed: for a hacker who already has a stored commitment, a
\* commitToBounties call with 1..3 ids succeeds and replaces the stored
\* Commitment and count with the new submission.
C5_AsClaimed ==
    [][ (IsCallOf("commitToBounties")
                /\ commitments[call'.sender].hacker # ZeroAddr
                /\ Len(call'.bountyIds) \in 1..3) =>
          /\ last'.err = ""
          /\ commitments'[call'.sender].bountyIds = call'.bountyIds
          /\ hackerCommitmentCount'[call'.sender] = Len(call'.bountyIds) ]_vars

\* C5 as amended: a hacker has one Commitment slot; for a hacker who already
\* has a stored commitment of C ids, a commitToBounties call with N in 1..3
\* ids succeeds exactly when C + N <= 3, and then replaces every field of the
\* stored Commitment and the count with the new submission; otherwise nothing
\* of the stored Commitment or count changes.
C5_ReplacesWhenWithinThrottle ==
    [][ (IsCallOf("commitToBounties")
                /\ commitments[call'.sender].hacker # ZeroAddr
                /\ Len(call'.bountyIds) \in 1..3) =>
          LET h == call'.sender
              C == hackerCommitmentCount[h]
              N == Len(call'.bountyIds)
          IN  IF C + N <= 3
              THEN /\ last'.err = ""
                   /\ commitments'[h] =
                         [hacker |-> h, bountyIds |-> call'.bountyIds,
                          ensPseudonym |-> call'.ensPseudonym,
                          ipfsHash |-> call'.ipfsHash, timestamp |-> call'.time]
                   /\ hackerCommitmentCount'[h] = N
              ELSE /\ last'.err = "ExceedsMaxCommitments"
                   /\ commitments'[h] = commitments[h]
                   /\ hackerCommitmentCount'[h] = hackerCommitmentCount[h] ]_vars

\* C5's case: a stored one-id commitment under a pseudonym has been replaced
\* by a two-id commitment without pseudonym.
C5_Witness ==
    /\ call.op = "commitToBounties" /\ last.err = ""
    /\ Len(CommitsBy(call.sender)) = 2
    /\ CommitsBy(call.sender)[1].bountyIds = <<"a">>
    /\ CommitsBy(call.sender)[1].ensPseudonym = "Neo.eth"
    /\ call.bountyIds = <<"A", "a">>
    /\ getCommitment(call.sender).ensPseudonym = ""

-----------------------------------------------------------------------------
(* sponsorBounty *)

IsSponsorOf(c, id) == c.op = "sponsorBounty" /\ c.bountyId = id

\* The sponsorBounty(id) calls that succeeded, in order.
SponsorCalls(id) == LET Test(c) == IsSponsorOf(c, id) IN Calls(Test)

\* The sum of the values attached to the calls of a sequence.
RECURSIVE SumValues(_)
SumValues(cs) == IF cs = <<>> THEN 0 ELSE cs[1].value + SumValues(Tail(cs))

\* The senders of the calls of a sequence, in order.
Senders(cs) == [i \in 1..Len(cs) |-> cs[i].sender]

\* C6: sponsorBounty(id) with value 0 fails with ZeroSponsorship (changing
\* nothing); with value V > 0 it succeeds, increases getBounty(id).prizePool by
\* exactly V and appends the sender as the new last element of
\* getBounty(id).sponsors, whether or not the sender is already in that list.
C6_SponsorAddsValueAndSender ==
    [][ IsCallOf("sponsorBounty") =>
          LET id == call'.bountyId
          IN  IF call'.value = 0
              THEN /\ last' = Outcome("ZeroSponsorship", <<>>, <<>>)
                   /\ UNCHANGED storage
              ELSE /\ last'.err = ""
                   /\ bounties'[id].prizePool =
                         bounties[id].prizePool + call'.value
                   /\ bounties'[id].sponsors =
                         Append(bounties[id].sponsors, call'.sender) ]_vars

\* C6's case: a sender who already was the only sponsor of a bounty has
\* sponsored it again.
C6_Witness ==
    /\ call.op = "sponsorBounty" /\ last.err = "" /\ call.value = 2
    /\ getBounty(call.bountyId).sponsors = <<call.sender, call.sender>>

\* Whether the stored bounty is what the successful sponsorBounty(id) calls
\* add up to.
PoolMirrorsCalls(id) ==
    /\ getBounty(id).prizePool = SumValues(SponsorCalls(id))
    /\ getBounty(id).sponsors = Senders(SponsorCalls(id))

\* C7: in every state and for every bounty id, getBounty(id).prizePool is the
\* sum of the values of all successful sponsorBounty(id) calls and
\* getBounty(id).sponsors is the list of their senders in call order, with
\* duplicates kept; and no step decreases a prizePool.
C7_PoolIsSumOfSponsorships ==
    /\ [](\A id \in BountyId : PoolMirrorsCalls(id))
    /\ [][ \A id \in BountyId :
              bounties'[id].prizePool >= bounties[id].prizePool ]_vars

\* C7's case: the same sponsor funded the same bounty with 1 and then with 2.
C7_Witness ==
    \E id \in BountyId, s \in Addr :
       /\ Len(SponsorCalls(id)) = 2
       /\ SponsorCalls(id)[1].value = 1 /\ SponsorCalls(id)[2].value = 2
       /\ getBounty(id).prizePool = 3
       /\ getBounty(id).sponsors = <<s, s>>

-----------------------------------------------------------------------------
(* bribeHacker *)

\* C8: bribeHacker(target, bountyId) with value 0 fails with ZeroBribe
\* (changing nothing); with value V > 0 it succeeds for any target and any
\* bountyId, getBribes(target) grows by exactly one entry, and that last entry
\* has amount V, briber msg.sender, hacker target and the given bountyId.
C8_BribeAppendsRecord ==
    [][ IsCallOf("bribeHacker") =>
          LET target == call'.hacker
          IN  IF call'.value = 0
              THEN /\ last' = Outcome("ZeroBribe", <<>>, <<>>)
                   /\ UNCHANGED storage
              ELSE /\ last'.err = ""
                   /\ Len(bribesByHacker'[target]) =
                         Len(bribesByHacker[target]) + 1
                   /\ LET entry == bribesByHacker'[target][Len(bribesByHacker'[target])]
                      IN  /\ entry.amount = call'.value
                          /\ entry.briber = call'.sender
                          /\ entry.hacker = target
                          /\ entry.bountyId = call'.bountyId ]_vars

\* C8's case: a bribe of 2 wei by another account has been recorded for a
\* target that never committed, naming a bounty that was never sponsored.
C8_Witness ==
    /\ call.op = "bribeHacker" /\ last.err = "" /\ call.value = 2
    /\ call.sender # call.hacker
    /\ getCommitment(call.hacker) = DefaultCommitment
    /\ getBounty(call.bountyId) = DefaultBounty
    /\ Len(getBribes(call.hacker)) = 1

\* C9: bribe histories are append-only: over every step and for every hacker
\* h, the earlier getBribes(h) is an initial segment of the later one, so no
\* Bribe record is modified or removed and the length never decreases.
C9_BribesAppendOnly ==
    [][ \A h \in Addr : IsPrefix(bribesByHacker[h], bribesByHacker'[h]) ]_vars

\* C9's case: a hacker's bribe list has grown to two entries.
C9_Witness ==
    \E h \in Addr :
       /\ Len(getBribes(h)) = 2
       /\ getBribes(h)[1] # getBribes(h)[2]

-----------------------------------------------------------------------------
(* View functions *)

IsBribeOf(c, h) == c.op = "bribeHacker" /\ c.hacker = h

\* Whether no successful mutating call has written the entry a view reads.
Untouched(view, key) ==
    LET Test(c) == CASE view = "getCommitment" -> IsCommitBy(c, key)
                     [] view = "getBounty"     -> IsSponsorOf(c, key)
                     [] view = "getBribes"     -> IsBribeOf(c, key)
    IN  Calls(Test) = <<>>

\* The zero value a view returns for an entry that was never written.
DefaultOf(view) ==
    CASE view = "getCommitment" -> DefaultCommitment
      [] view = "getBounty"     -> DefaultBounty
      [] view = "getBribes"     -> <<>>

\* C10: getBounty, getCommitment and getBribes never revert and never change
\* state; for a key no successful mutating call has touched they return the
\* default value (zero address, empty lists and strings, zero timestamp and
\* prize pool).
C10_ViewsArePureWithDefaults ==
    [][ (\/ IsCallOf("getCommitment")
         \/ IsCallOf("getBounty")
         \/ IsCallOf("getBribes")) =>
          /\ last'.err = ""
          /\ UNCHANGED storage
          /\ Untouched(call'.op, call'.key) =>
                last'.ret = DefaultOf(call'.op) ]_vars

\* C10's case: getBounty has returned the default record for a bounty that a
\* recorded bribe names but nobody sponsored.
C10_Witness ==
    /\ call.op = "getBounty"
    /\ last = Outcome("", <<>>, DefaultBounty)
    /\ \E i \in 1..Len(history) :
          /\ history[i].op = "bribeHacker"
          /\ history[i].bountyId = call.key


-----------------------------------------------------------------------------
(* Frame of bribes and commitments *)

\* Whether a bounty no successful sponsorBounty call names holds the zero
\* record.
UnsponsoredIsDefault(id) ==
    Untouched("getBounty", id) => getBounty(id) = DefaultBounty

\* C11: bribes never create or touch Bounty records: a bribeHacker(h, id) call
\* leaves getBounty(x) unchanged for every x, x = id included, and so does a
\* commitToBounties call; a bounty that only bribes and commitments name
\* still has a zero prizePool, no sponsors and an empty bountyId.
C11_BribesAndCommitsLeaveBounties ==
    /\ [](\A id \in BountyId : UnsponsoredIsDefault(id))
    /\ [][ (IsCallOf("bribeHacker") \/ IsCallOf("commitToBounties")) =>
              \A x \in BountyId : bounties'[x] = bounties[x] ]_vars

\* C11's case: a commitment and a recorded bribe both name a bounty that
\* nobody sponsored, and its record is still the zero record.
C11_Witness ==
    \E id \in BountyId, h \in Addr :
       /\ \E i \in 1..Len(getCommitment(h).bountyIds) :
             getCommitment(h).bountyIds[i] = id
       /\ \E g \in Addr : \E i \in 1..Len(getBribes(g)) :
             getBribes(g)[i].bountyId = id
       /\ Untouched("getBounty", id)
       /\ getBounty(id) = DefaultBounty


-----------------------------------------------------------------------------
(* Failures *)

\* The errors a call of a public function can fail with; the last two stand for
\* a revert inside the endpoint's send and for abi.decode rejecting a payload.
Failures ==
    {"NoBountiesProvided", "ExceedsMaxCommitments", "ZeroSponsorship",
     "ZeroBribe", "EndpointReverted", "DecodeFailed"}

\* C12: atomic failure: whenever a public call fails (NoBountiesProvided,
\* ExceedsMaxCommitments, ZeroSponsorship, ZeroBribe, a reverting endpoint
\* call), commitments, hackerCommitmentCount, bounties, bribesByHacker and the
\* balance are exactly what they were before the call, and the call adds no
\* event to the log.
C12_FailedCallsChangeNothing ==
    [][ (/\ last'.err # ""
         /\ \/ IsCallOf("commitToBounties")
            \/ IsCallOf("sponsorBounty")
            \/ IsCallOf("bribeHacker")
            \/ IsCallOf("lzReceive")
            \/ IsCallOf("sendCommitCrossChain")) =>
          /\ last'.err \in Failures
          /\ UNCHANGED <<commitments, hackerCommitmentCount, bounties,
                         bribesByHacker, balance, events, endpointCalls>>
          /\ history' = history ]_vars

\* C12's case: a send with a fee attached has failed in the endpoint on a
\* ledger that holds a sponsorship; the pool, the balance and the one-event
\* log are as they were.
C12_Witness ==
    /\ call.op = "sendCommitCrossChain" /\ call.value = 1
    /\ last.err = "EndpointReverted"
    /\ balance = 2
    /\ Len(events) = 1
    /\ \E id \in BountyId : getBounty(id).prizePool = 2


-----------------------------------------------------------------------------
(* Construction *)

\* C13: construction with the zero address as endpoint fails with
\* InvalidLayerZeroEndpoint; otherwise the given address is stored in
\* lzEndpoint, and in every state of a deployed ledger lzEndpoint is non-zero
\* and equal to the constructor argument, whatever operations ran since.
C13_EndpointFixedAtConstruction ==
    /\ (call.op = "constructor" /\ call.lzEndpoint = ZeroAddr) =>
          /\ ~deployed
          /\ last = Outcome("InvalidLayerZeroEndpoint", <<>>, <<>>)
    /\ (call.op = "constructor" /\ call.lzEndpoint # ZeroAddr) =>
          /\ deployed
          /\ last.err = ""
          /\ lzEndpoint = call.lzEndpoint
    /\ deployed =>
          /\ history[1].op = "constructor"
          /\ lzEndpoint # ZeroAddr
          /\ lzEndpoint = history[1].lzEndpoint
    /\ ~deployed => call.op = "constructor" /\ history = <<>>

\* C13's case: on a deployed ledger a sponsorship and a cross-chain send have
\* committed, and the send went to the endpoint given at construction.
C13_Witness ==
    /\ deployed
    /\ Len(history) = 3
    /\ history[1].op = "constructor"
    /\ history[2].op = "sponsorBounty"
    /\ history[3].op = "sendCommitCrossChain"
    /\ lzEndpoint = history[1].lzEndpoint
    /\ endpointCalls[1].endpoint = history[1].lzEndpoint


-----------------------------------------------------------------------------
(* Funds *)

\* The sum of f[x] over the elements x of the finite set S.
RECURSIVE SetSum(_, _)
SetSum(f, S) ==
    IF S = {} THEN 0
    ELSE LET x == CHOOSE y \in S : TRUE IN f[x] + SetSum(f, S \ {x})

\* The sum of the numbers of a sequence.
RECURSIVE SeqSum(_)
SeqSum(s) == IF s = <<>> THEN 0 ELSE s[1] + SeqSum(Tail(s))

\* The sum of all bounties' prize pools.
TotalPools == SetSum([id \in BountyId |-> getBounty(id).prizePool], BountyId)

\* The sum of the amounts of all recorded bribes.
TotalBribes ==
    SetSum([h \in Addr |->
               SeqSum([i \in 1..Len(getBribes(h)) |-> getBribes(h)[i].amount])],
           Addr)

\* The value the endpoint received with the send calls.
Forwarded ==
    SeqSum([i \in 1..Len(endpointCalls) |-> endpointCalls[i].value])

IsPayable(c) ==
    c.op \in {"sponsorBounty", "bribeHacker", "sendCommitCrossChain"}

\* The value the committed calls brought in.
Received == SumValues(Calls(IsPayable))

\* The balance is the pools plus the bribes, and what came in is either still
\* there or went to the endpoint: no other account was paid.
FundsAccounted ==
    /\ balance = TotalPools + TotalBribes
    /\ Received = balance + Forwarded

\* C14: funds are locked: no operation decreases the ledger's balance or pays
\* ETH to a sponsor or a bribed hacker; after any sequence of operations the
\* balance equals the sum of all prize pools plus the sum of the amounts of
\* all recorded bribes, sendCommitCrossChain passing its whole attached value
\* on to the endpoint and leaving the balance as it was.
C14_FundsLocked ==
    /\ []FundsAccounted
    /\ [][ /\ balance' >= balance
           /\ IsCallOf("sendCommitCrossChain") =>
                 balance' = balance ]_vars

\* C14's case: a send with a fee of 1 has committed on a ledger that holds a
\* sponsorship of 2; the balance is still 2 and the endpoint received the 1.
C14_Witness ==
    /\ call.op = "sendCommitCrossChain" /\ last.err = "" /\ call.value = 1
    /\ balance = 2
    /\ TotalPools = 2
    /\ Forwarded = 1


-----------------------------------------------------------------------------
(* LayerZero mock functions *)

\* C15: lzReceive performs no state mutation: for any caller, the endpoint or
\* not, and any payload that decodes to (address hacker, string bountyId), it
\* succeeds, leaves commitments, hackerCommitmentCount, bounties,
\* bribesByHacker and the balance unchanged and emits exactly one
\* CrossChainSnapshot(hacker, bountyId) with the decoded values.
C15_LzReceiveOnlyEmits ==
    [][ IsCallOf("lzReceive") =>
          \A hacker \in Addr, bountyId \in BountyId :
             call'.payload = abi_encode(hacker, bountyId) =>
                /\ last'.err = ""
                /\ UNCHANGED <<commitments, hackerCommitmentCount, bounties,
                               bribesByHacker, balance, lzEndpoint,
                               endpointCalls>>
                /\ events' = Append(events,
                       [name |-> "CrossChainSnapshot", hacker |-> hacker,
                        bountyId |-> bountyId]) ]_vars

\* C15's case: an account that is neither the endpoint nor the hacker named in
\* the payload has delivered a snapshot to a ledger that holds a sponsorship.
C15_Witness ==
    /\ call.op = "lzReceive" /\ last.err = ""
    /\ call.sender # lzEndpoint
    /\ call.sender # call.payload[1]
    /\ balance > 0
    /\ Len(events) = 2
    /\ events[2] = [name |-> "CrossChainSnapshot",
                    hacker |-> call.payload[1], bountyId |-> call.payload[4]]


IsSend(c) == c.op = "sendCommitCrossChain"

\* Whether the step is a sendCommitCrossChain call whose call of the endpoint
\* did not commit.
SendRefused ==
    /\ IsCallOf("sendCommitCrossChain")
    /\ endpointCalls' = endpointCalls

\* C16: if the endpoint's send fails during sendCommitCrossChain, the whole
\* call reverts: neither LZMessageSent nor CrossChainSnapshot remains in the
\* event log, no value stays with the ledger or the endpoint, and the ledger
\* neither retries nor queues the message (the endpoint is called once for
\* each send that committed, and never otherwise).
C16_EndpointFailureReverts ==
    /\ [](Len(endpointCalls) = Len(Calls(IsSend)))
    /\ [][ /\ SendRefused =>
                 /\ last' = Outcome("EndpointReverted", <<>>, <<>>)
                 /\ events' = events
                 /\ balance' = balance
                 /\ history' = history
                 /\ UNCHANGED <<commitments, hackerCommitmentCount, bounties,
                                bribesByHacker, lzEndpoint>>
           /\ ~IsCallOf("sendCommitCrossChain") =>
                 endpointCalls' = endpointCalls ]_vars

\* C16's case: a hacker's send with a fee attached, for a bounty of their
\* stored commitment, has failed in the endpoint; the log holds the commitment
\* event only and the endpoint received nothing.
C16_Witness ==
    /\ call.op = "sendCommitCrossChain" /\ call.value = 1
    /\ last.err = "EndpointReverted"
    /\ getCommitment(call.sender).bountyIds = <<call.bountyId>>
    /\ Len(events) = 1 /\ events[1].name = "NewCommitment"
    /\ endpointCalls = <<>>
    /\ balance = 0


\* C17: a successful sendCommitCrossChain(dstChainId, bountyId) by caller s
\* does, in this order: emit LZMessageSent(dstChainId, packed address of the
\* ledger itself, encode(s, bountyId)); call the endpoint's send once with the
\* same dstChainId, destination and payload, refund address s and the full
\* attached value; emit CrossChainSnapshot(s, bountyId).  It changes no
\* Commitment, Bounty or Bribe record, whether or not s has a commitment.
C17_SendEmitsCallsEmits ==
    [][ (IsCallOf("sendCommitCrossChain")
                /\ last'.err = "") =>
          LET s == call'.sender
              sent == events'[Len(events) + 1]
              made == endpointCalls'[Len(endpointCalls) + 1]
          IN  /\ Len(events') = Len(events) + 2
              /\ SubSeq(events', 1, Len(events)) = events
              /\ sent.name = "LZMessageSent"
              /\ sent.dstChainId = call'.dstChainId
              /\ sent.destination = <<ThisAddr>>
              /\ abi_decodable(sent.payload)
              /\ abi_decode(sent.payload) = <<s, call'.bountyId>>
              /\ endpointCalls' = Append(endpointCalls, made)
              /\ made.endpoint = lzEndpoint
              /\ made.eventsBefore = Len(events) + 1
              /\ made.dstChainId = sent.dstChainId
              /\ made.destination = sent.destination
              /\ made.payload = sent.payload
              /\ made.refundAddress = s
              /\ made.value = call'.value
              /\ events'[Len(events) + 2] =
                    [name |-> "CrossChainSnapshot", hacker |-> s,
                     bountyId |-> call'.bountyId]
              /\ UNCHANGED <<commitments, hackerCommitmentCount, bounties,
                             bribesByHacker>> ]_vars

\* C17's case: an account without a commitment has sent, with a fee, a
\* snapshot for a bounty that another hacker committed to.
C17_Witness ==
    /\ call.op = "sendCommitCrossChain" /\ last.err = "" /\ call.value = 1
    /\ getCommitment(call.sender) = DefaultCommitment
    /\ \E h \in Addr : getCommitment(h).bountyIds = <<call.bountyId>>
    /\ Len(events) = 3
    /\ events[2].name = "LZMessageSent"
    /\ events[3].name = "CrossChainSnapshot"
    /\ Len(endpointCalls) = 1
    /\ endpointCalls[1].eventsBefore = 2


-----------------------------------------------------------------------------
(* Event log *)

\* The NewCommitment events of hacker h, in log order.
CommitEvents(h) ==
    LET Test(e) == e.name = "NewCommitment" /\ e.hacker = h
    IN  SelectSeq(events, Test)

\* The BountySponsored events of bounty id, in log order.
SponsorEvents(id) ==
    LET Test(e) == e.name = "BountySponsored" /\ e.bountyId = id
    IN  SelectSeq(events, Test)

\* The HackerBribed events that name hacker h, in log order.
BribeEvents(h) ==
    LET Test(e) == e.name = "HackerBribed" /\ e.hacker = h
    IN  SelectSeq(events, Test)

\* The number of events a committed call emits.
EventsOf(c) ==
    CASE c.op = "constructor"          -> 0
      [] c.op = "sendCommitCrossChain" -> 2
      [] OTHER                         -> 1

\* C18: the event log and the storage stay consistent: every successful
\* commitToBounties, sponsorBounty and bribeHacker emits exactly one event of
\* its own type and failed calls emit none, so that in every state, for every
\* hacker h the bountyIds of the last NewCommitment(h, ...) equal
\* getCommitment(h).bountyIds, for every bounty id the sum of the
\* BountySponsored amounts equals getBounty(id).prizePool and their number
\* equals sponsors.length, and for every h the HackerBribed events for h match
\* getBribes(h) entry by entry in order.
C18_EventsMirrorStorage ==
    /\ Len(events) = SeqSum([i \in 1..Len(history) |-> EventsOf(history[i])])
    /\ \A h \in Addr :
          LET ce == CommitEvents(h)
          IN  /\ Len(ce) = Len(CommitsBy(h))
              /\ IF ce = <<>>
                 THEN getCommitment(h) = DefaultCommitment
                 ELSE /\ ce[Len(ce)].bountyIds = getCommitment(h).bountyIds
                      /\ ce[Len(ce)].ipfsHash = getCommitment(h).ipfsHash
    /\ \A id \in BountyId :
          LET se == SponsorEvents(id)
          IN  /\ Len(se) = Len(SponsorCalls(id))
              /\ SeqSum([i \in 1..Len(se) |-> se[i].amount]) =
                    getBounty(id).prizePool
              /\ Len(se) = Len(getBounty(id).sponsors)
              /\ \A i \in 1..Len(se) : se[i].sponsor = getBounty(id).sponsors[i]
    /\ \A h \in Addr :
          LET be == BribeEvents(h)
              IsMine(c) == IsBribeOf(c, h)
          IN  /\ Len(be) = Len(Calls(IsMine))
              /\ Len(be) = Len(getBribes(h))
              /\ \A i \in 1..Len(be) :
                    /\ be[i].briber = getBribes(h)[i].briber
                    /\ be[i].hacker = getBribes(h)[i].hacker
                    /\ be[i].bountyId = getBribes(h)[i].bountyId
                    /\ be[i].amount = getBribes(h)[i].amount

\* C18's case: a hacker has committed twice; the log holds both NewCommitment
\* events and the stored ids are those of the last one, not of the first.
C18_Witness ==
    \E h \in Addr :
       /\ Len(CommitEvents(h)) = 2
       /\ CommitEvents(h)[2].bountyIds = getCommitment(h).bountyIds
       /\ CommitEvents(h)[1].bountyIds # getCommitment(h).bountyIds


-----------------------------------------------------------------------------
(* Bounty records *)

\* C19: lazy bounty identity: in every state and for every bounty key k,
\* either prizePool = 0, sponsors is empty and the stored bountyId is the
\* empty string (never sponsored), or prizePool > 0, sponsors is non-empty and
\* the stored bountyId equals k; the field is written by the first successful
\* sponsorBounty(k) only (it is empty exactly while no sponsorBounty(k) has
\* succeeded) and never changes afterwards.
C19_LazyBountyIdentity ==
    \A k \in BountyId :
       /\ \/ /\ getBounty(k).prizePool = 0
             /\ getBounty(k).sponsors = <<>>
             /\ getBounty(k).bountyId = ""
          \/ /\ getBounty(k).prizePool > 0
             /\ getBounty(k).sponsors # <<>>
             /\ getBounty(k).bountyId = k
       /\ getBounty(k).bountyId = IF SponsorCalls(k) = <<>> THEN "" ELSE k

\* C19's case: one bounty has been sponsored twice and carries its key, while
\* the other, named by nobody or by bribes and commitments only, is unnamed.
C19_Witness ==
    \E k, j \in BountyId :
       /\ Len(SponsorCalls(k)) = 2
       /\ getBounty(k).bountyId = k
       /\ getBounty(k).prizePool = 3
       /\ getBounty(j) = DefaultBounty


-----------------------------------------------------------------------------
(* Frame of the mutating functions *)

\* C20: each mutating operation updates only entries keyed by the caller or
\* by data the caller supplies: commitToBounties by caller a changes only
\* commitments[a] and hackerCommitmentCount[a]; sponsorBounty(id) changes only
\* bounties[id] and the balance; bribeHacker(h, _) changes only
\* bribesByHacker[h] and the balance; every other map entry is unchanged.
C20_OnlyCallersEntriesChange ==
    [][ /\ IsCallOf("commitToBounties") =>
              /\ \A h \in Addr \ {call'.sender} :
                    /\ commitments'[h] = commitments[h]
                    /\ hackerCommitmentCount'[h] = hackerCommitmentCount[h]
              /\ UNCHANGED <<bounties, bribesByHacker, balance, lzEndpoint>>
        /\ IsCallOf("sponsorBounty") =>
              /\ \A id \in BountyId \ {call'.bountyId} :
                    bounties'[id] = bounties[id]
              /\ UNCHANGED <<commitments, hackerCommitmentCount,
                             bribesByHacker, lzEndpoint>>
        /\ IsCallOf("bribeHacker") =>
              /\ \A h \in Addr \ {call'.hacker} :
                    bribesByHacker'[h] = bribesByHacker[h]
              /\ UNCHANGED <<commitments, hackerCommitmentCount, bounties,
                             lzEndpoint>> ]_vars

\* C20's case: an account that holds a bribe record of its own has bribed
\* another hacker; its own list still has its one entry.
C20_Witness ==
    /\ call.op = "bribeHacker" /\ last.err = ""
    /\ call.sender # call.hacker
    /\ Len(getBribes(call.sender)) = 1
    /\ Len(getBribes(call.hacker)) = 1
    /\ getBribes(call.hacker)[1].briber = call.sender


-----------------------------------------------------------------------------
(* Repeated calls *)

\* Whether the step repeats the latest call, which succeeded: the same
\* function, caller, arguments and value, block time aside.
RepeatsCall(op) ==
    /\ call.op = op /\ last.err = ""
    /\ IsCallOf(op)
    /\ call' = IF op = "sponsorBounty" THEN call
               ELSE [call EXCEPT !.time = call'.time]

\* Whether two stored commitments agree, timestamps aside.
SameCommitment(c, d) == [c EXCEPT !.timestamp = 0] = [d EXCEPT !.timestamp = 0]

\* Whether two bribe histories agree, timestamps aside.
SameBribes(s, t) ==
    /\ Len(s) = Len(t)
    /\ \A i \in 1..Len(s) : [s[i] EXCEPT !.timestamp = 0] =
                             [t[i] EXCEPT !.timestamp = 0]

\* C21 as claimed: each of commitToBounties, sponsorBounty and bribeHacker is
\* idempotent in isolation: repeating the same successful call immediately a
\* second time succeeds and leaves commitments, counts, bounties and bribe
\* histories (timestamps aside) equal to what they were after the first call.
C21_AsClaimed ==
    [][ (\/ RepeatsCall("commitToBounties")
         \/ RepeatsCall("sponsorBounty")
         \/ RepeatsCall("bribeHacker")) =>
          /\ last'.err = ""
          /\ \A h \in Addr :
                /\ SameCommitment(commitments'[h], commitments[h])
                /\ hackerCommitmentCount'[h] = hackerCommitmentCount[h]
                /\ SameBribes(bribesByHacker'[h], bribesByHacker[h])
          /\ bounties' = bounties ]_vars

\* C21 as amended: repeating the same successful call immediately a second
\* time is idempotent only for a commitToBounties of one id, which succeeds
\* and leaves commitments and counts as they were (timestamp aside); a
\* repeated commitToBounties of N >= 2 ids fails with
\* ExceedsMaxCommitments(N, N, 3) and changes nothing; a repeated
\* sponsorBounty succeeds, adds its value to the pool again and appends the
\* sender again; a repeated bribeHacker succeeds and appends a second record.
\* A repeated call changes no entry but the one it names.
C21_RepeatedCalls ==
    [][ /\ RepeatsCall("commitToBounties") =>
              LET h == call.sender
                  N == Len(call.bountyIds)
              IN  /\ IF N = 1
                     THEN /\ last'.err = ""
                          /\ SameCommitment(commitments'[h], commitments[h])
                     ELSE /\ last' = Outcome("ExceedsMaxCommitments",
                                             <<N, N, 3>>, <<>>)
                          /\ commitments' = commitments
                          /\ events' = events
                  /\ hackerCommitmentCount' = hackerCommitmentCount
                  /\ UNCHANGED <<bounties, bribesByHacker>>
        /\ RepeatsCall("sponsorBounty") =>
              LET id == call.bountyId
              IN  /\ last'.err = ""
                  /\ bounties' = [bounties EXCEPT ![id] =
                        [@ EXCEPT !.prizePool = @ + call.value,
                                  !.sponsors = Append(@, call.sender)]]
                  /\ UNCHANGED <<commitments, hackerCommitmentCount,
                                 bribesByHacker>>
        /\ RepeatsCall("bribeHacker") =>
              LET h == call.hacker
                  given == bribesByHacker[h][Len(bribesByHacker[h])]
              IN  /\ last'.err = ""
                  /\ bribesByHacker' = [bribesByHacker EXCEPT ![h] =
                        Append(@, [given EXCEPT !.timestamp = call'.time])]
                  /\ UNCHANGED <<commitments, hackerCommitmentCount,
                                 bounties>> ]_vars

\* C21's case: the same sponsor has sent the same sponsorship twice in a row;
\* the pool holds the value twice and lists the sponsor twice.
C21_Witness ==
    /\ call.op = "sponsorBounty" /\ last.err = ""
    /\ Len(history) = 3
    /\ history[2] = history[3]
    /\ getBounty(call.bountyId).prizePool = 2 * call.value
    /\ getBounty(call.bountyId).sponsors = <<call.sender, call.sender>>


-----------------------------------------------------------------------------
(* The throttle over a hacker's successive commits *)

\* C26: once hackerCommitmentCount[h] is 3, every later commitToBounties by h
\* fails, with NoBountiesProvided for an empty list and with
\* ExceedsMaxCommitments(3, N, 3) otherwise, and neither getCommitment(h) nor
\* the count of h changes in any step.
C26_LockedAtThree ==
    [][ \A h \in Addr : hackerCommitmentCount[h] = MAX_COMMITMENTS =>
          /\ commitments'[h] = commitments[h]
          /\ hackerCommitmentCount'[h] = MAX_COMMITMENTS
          /\ (IsCallOf("commitToBounties") /\ call'.sender = h) =>
                last' = IF call'.bountyIds = <<>>
                        THEN Outcome("NoBountiesProvided", <<>>, <<>>)
                        ELSE Outcome("ExceedsMaxCommitments",
                                     <<MAX_COMMITMENTS, Len(call'.bountyIds),
                                       MAX_COMMITMENTS>>, <<>>) ]_vars

\* C26's case: a hacker holding three ids has just tried to commit to one
\* more and was refused.
C26_Witness ==
    /\ call.op = "commitToBounties"
    /\ hackerCommitmentCount[call.sender] = MAX_COMMITMENTS
    /\ Len(call.bountyIds) = 1
    /\ last.err = "ExceedsMaxCommitments"
    /\ last.args = <<3, 1, 3>>
    /\ Len(getCommitment(call.sender).bountyIds) = 3


\* C27: for every hacker h, once h has one successful commitToBounties the
\* count of h is never 0 again; the sizes of any two consecutive successful
\* commits by h sum to at most 3; a stored commitment of 3 ids is h's first
\* successful commit; and after a first commit of 1 or 2 ids the stored count
\* stays in {1, 2}.
C27_ThrottleOverCommits ==
    \A h \in Addr :
        LET cs == CommitsBy(h)
            size(i) == Len(cs[i].bountyIds)
        IN  /\ cs # <<>> => hackerCommitmentCount[h] # 0
            /\ \A i \in 1..(Len(cs) - 1) : size(i) + size(i + 1) <= 3
            /\ Len(getCommitment(h).bountyIds) = 3 => Len(cs) = 1
            /\ (cs # <<>> /\ size(1) \in {1, 2}) =>
                   hackerCommitmentCount[h] \in {1, 2}

\* C27's case: a hacker has committed to one id and then replaced it with
\* two, the largest list the throttle lets through after a first commit.
C27_Witness ==
    \E h \in Addr :
        /\ Len(CommitsBy(h)) = 2
        /\ Len(CommitsBy(h)[1].bountyIds) = 1
        /\ Len(CommitsBy(h)[2].bountyIds) = 2
        /\ hackerCommitmentCount[h] = 2


-----------------------------------------------------------------------------
(* Non-interference between callers and between keys *)

\* The commitment that the successful commits cs of hacker h leave stored:
\* the zero record while there is none, the latest one otherwise.
CommitmentFrom(h, cs) ==
    IF cs = <<>> THEN DefaultCommitment
    ELSE LET c == cs[Len(cs)]
         IN  [hacker |-> h, bountyIds |-> c.bountyIds,
              ensPseudonym |-> c.ensPseudonym, ipfsHash |-> c.ipfsHash,
              timestamp |-> c.time]

\* The count that the successful commits cs of a hacker leave stored.
CountFrom(cs) == IF cs = <<>> THEN 0 ELSE Len(cs[Len(cs)].bountyIds)

\* The successful bribeHacker calls aimed at hacker h, in order.
BribeCalls(h) == LET Test(c) == IsBribeOf(c, h) IN Calls(Test)

\* The bribe history that the successful bribes cs aimed at hacker h leave.
BribesFrom(h, cs) ==
    [i \in 1..Len(cs) |->
        [briber |-> cs[i].sender, hacker |-> h, bountyId |-> cs[i].bountyId,
         amount |-> cs[i].value, timestamp |-> cs[i].time]]

\* The outcome of a commitToBounties of n ids by a hacker whose successful
\* commits so far are cs.
CommitOutcome(cs, n) ==
    IF n = 0 THEN Outcome("NoBountiesProvided", <<>>, <<>>)
    ELSE IF CountFrom(cs) + n > 3
    THEN Outcome("ExceedsMaxCommitments", <<CountFrom(cs), n, 3>>, <<>>)
    ELSE Ok

\* C28: whether a commitToBounties by hacker h succeeds, and which error it
\* raises, depends only on h's own earlier successful commits and on the
\* length of the submitted list; no step other than a successful commit by h
\* changes h's commitment or count; and every entry of the ledger is
\* determined by the successful calls on its own key alone, in their order
\* (h's commitment and count by h's commits, a bounty by its sponsorships, a
\* bribe history by the bribes aimed at its hacker), so that calls by
\* different callers on different keys commute.
C28_NonInterference ==
    /\ [](\A h \in Addr :
            /\ getCommitment(h) = CommitmentFrom(h, CommitsBy(h))
            /\ hackerCommitmentCount[h] = CountFrom(CommitsBy(h))
            /\ getBribes(h) = BribesFrom(h, BribeCalls(h)))
    /\ [](\A id \in BountyId : PoolMirrorsCalls(id))
    /\ [][ /\ IsCallOf("commitToBounties") =>
                 last' = CommitOutcome(CommitsBy(call'.sender),
                                       Len(call'.bountyIds))
           /\ <<commitments, hackerCommitmentCount>>' #
                 <<commitments, hackerCommitmentCount>> =>
                 /\ IsCallOf("commitToBounties") /\ last'.err = ""
                 /\ \A h \in Addr \ {call'.sender} :
                       /\ commitments'[h] = commitments[h]
                       /\ hackerCommitmentCount'[h] = hackerCommitmentCount[h]
         ]_vars

\* C28's case: between two commits of one hacker another address committed,
\* and the first hacker's second commit was judged on their own count: it
\* was let through although the two hackers' lists together exceed three.
C28_Witness ==
    \E h \in Addr, o \in Addr :
        /\ h # o
        /\ call.op = "commitToBounties" /\ call.sender = h /\ last.err = ""
        /\ CommitsBy(o) # <<>>
        /\ hackerCommitmentCount[o] + Len(call.bountyIds) > 3
        /\ getCommitment(o) = CommitmentFrom(o, CommitsBy(o))


-----------------------------------------------------------------------------
(* Timestamps *)

\* C29: block timestamps never decrease from one call to the next, and for
\* every hacker h the timestamps in getBribes(h) are non-decreasing in list
\* order, each is the block time of the call that created it, and
\* getCommitment(h).timestamp is the block time of h's last successful commit
\* (0 if h never committed).
C29_Timestamps ==
    /\ \A i \in 2..Len(history) :
          \A j \in 2..i : history[j].op \in {"commitToBounties", "bribeHacker"}
              /\ history[i].op \in {"commitToBounties", "bribeHacker"}
              => history[j].time <= history[i].time
    /\ \A h \in Addr :
          LET bs == getBribes(h)
              cs == CommitsBy(h)
          IN  /\ \A i \in 1..Len(bs), j \in 1..Len(bs) :
                    i <= j => bs[i].timestamp <= bs[j].timestamp
              /\ Len(bs) = Len(BribeCalls(h))
              /\ \A i \in 1..Len(bs) : bs[i].timestamp = BribeCalls(h)[i].time
              /\ getCommitment(h).timestamp =
                    IF cs = <<>> THEN 0 ELSE cs[Len(cs)].time

\* C29's case: a hacker was bribed in one block and again in a later one.
C29_Witness ==
    \E h \in Addr :
        /\ Len(getBribes(h)) = 2
        /\ getBribes(h)[1].timestamp < getBribes(h)[2].timestamp
        /\ getBribes(h)[2].timestamp = now


-----------------------------------------------------------------------------
(* The subgraph: event handlers over the entity store *)

\* Time and transaction fields of the entities (timestamp, lastActive,
\* lastUpdated, transactionHash, blockNumber) are left out: no handler reads
\* them back and no property here concerns them.

\* What a read of an event parameter that the emitted event does not carry
\* may yield: a text and a number that the ledger did not choose.
UndefinedStrings == {"", "Neo.eth"}
UndefinedNumbers == {0, 1}

\* An unset nullable field of an entity.
null == "null"

\* String.toLowerCase on the strings that reach the handlers.
toLowerCase(s) ==
    CASE s = "A"           -> "a"
      [] s = "Neo.eth"     -> "neo.eth"
      [] s = "Trinity.eth" -> "trinity.eth"
      [] OTHER             -> s

\* Bytes.toHexString of an address: its hexadecimal text.
toHexString(address) == "0x" \o address

\* The topic of an indexed string parameter: keccak256 of its bytes, written
\* here by the leading hexadecimal digits of the hash.
keccak256(s) ==
    [bytes32 |-> CASE s = "a" -> "3ac225168df54212"
                   [] s = "A" -> "03783fac2efed8fb"]

\* Bytes.toString: the bytes read as text.
BytesToString(b) == "utf8:" \o b.bytes32

\* The event handed to handleNewCommitment for entry i of the log: its
\* identity (transaction hash and log index, one per entry of the log) and
\* its parameters, where ensPseudonym is not among those emitted.
NewCommitment(i, undefinedString) ==
    [id |-> i,
     params |-> [hacker |-> events[i].hacker,
                 bountyIds |-> events[i].bountyIds,
                 ipfsHash |-> events[i].ipfsHash,
                 ensPseudonym |-> undefinedString]]

\* The event handed to handleBountySponsored for entry i of the log: bountyId
\* is indexed, so the handler gets its topic; newTotal is not among the
\* parameters emitted.
BountySponsored(i, undefinedNumber) ==
    [id |-> i,
     params |-> [bountyId |-> keccak256(events[i].bountyId),
                 sponsor |-> events[i].sponsor,
                 amount |-> events[i].amount,
                 newTotal |-> undefinedNumber]]

\* The event handed to handleHackerBribed for entry i of the log.
HackerBribed(i) ==
    [id |-> i,
     params |-> [briber |-> events[i].briber,
                 hacker |-> events[i].hacker,
                 bountyId |-> events[i].bountyId,
                 amount |-> events[i].amount]]

\* Entity.load: whether the store s holds an entity of the type under the id.
loads(s, type, id) == id \in DOMAIN s[type]

\* entity.save(): the store s with the entity written under its id.
save(s, type, entity) ==
    [s EXCEPT ![type] =
        [k \in DOMAIN s[type] \cup {entity.id} |->
            IF k = entity.id THEN entity ELSE s[type][k]]]

\* function getOrCreateGlobalStats(): GlobalStats
getOrCreateGlobalStats(s) ==
    IF loads(s, "GlobalStats", "global")
    THEN s.GlobalStats["global"]
    ELSE [id |-> "global", totalCommitments |-> 0, totalBribes |-> 0,
          totalBribeVolume |-> 0, totalSponsors |-> 0,
          totalSponsorVolume |-> 0, totalHackers |-> 0]

\* Faulty variant of getOrCreateHacker: every call counts a new hacker.
getOrCreateHacker_CountsEveryCall(s, address) ==
    LET hackerId == toLowerCase(toHexString(address))
        stats == getOrCreateGlobalStats(s)
        counted == save(s, "GlobalStats",
                        [stats EXCEPT !.totalHackers = @ + 1])
    IN  IF loads(s, "Hacker", hackerId)
        THEN [hacker |-> s.Hacker[hackerId], store |-> counted]
        ELSE [hacker |-> [id |-> hackerId, address |-> address,
                          commitments |-> <<>>, bribesReceived |-> <<>>,
                          totalBribesReceived |-> 0, bountyIds |-> <<>>,
                          ensPseudonym |-> null, ipfsHash |-> null],
              store |-> counted]

\* function getOrCreateHacker(address: Bytes): Hacker
\* The hacker it returns, not yet saved, and the store it leaves: a hacker it
\* creates is counted in the global statistics at once.
getOrCreateHacker(s, address) ==
    LET hackerId == toLowerCase(toHexString(address))
        stats == getOrCreateGlobalStats(s)
    IN  IF loads(s, "Hacker", hackerId)
        THEN [hacker |-> s.Hacker[hackerId], store |-> s]
        ELSE [hacker |-> [id |-> hackerId, address |-> address,
                          commitments |-> <<>>, bribesReceived |-> <<>>,
                          totalBribesReceived |-> 0, bountyIds |-> <<>>,
                          ensPseudonym |-> null, ipfsHash |-> null],
              store |-> save(s, "GlobalStats",
                             [stats EXCEPT !.totalHackers = @ + 1])]

\* function getOrCreateBounty(bountyId: string): Bounty
\* The entity under the lower-cased id; a new one keeps the spelling given.
getOrCreateBounty(s, bountyId) ==
    LET normalizedId == toLowerCase(bountyId)
    IN  IF loads(s, "Bounty", normalizedId)
        THEN s.Bounty[normalizedId]
        ELSE [id |-> normalizedId, bountyId |-> bountyId, prizePool |-> 0,
              totalSponsors |-> 0, commitments |-> <<>>]

\* function normalizeENS(ens: string): string
normalizeENS(ens) == IF ens # "" THEN toLowerCase(ens) ELSE ""

\* The loop of handleNewCommitment over the event's bounty ids:
\*   let bounty = getOrCreateBounty(event.params.bountyIds[i]);
\*   bountyCommitments.push(commitmentId); ... bounty.save();
RECURSIVE BountiesOfCommitment(_, _, _)
BountiesOfCommitment(s, bountyIds, commitmentId) ==
    IF bountyIds = <<>> THEN s
    ELSE LET bounty == getOrCreateBounty(s, Head(bountyIds))
         IN  BountiesOfCommitment(
                 save(s, "Bounty",
                      [bounty EXCEPT !.commitments = Append(@, commitmentId)]),
                 Tail(bountyIds), commitmentId)

\* export function handleNewCommitment(event: NewCommitment): void
handleNewCommitment(s, event) ==
    LET commitmentId == event.id
        commitment == [id |-> commitmentId,
                       hacker |-> event.params.hacker,
                       bountyIds |-> event.params.bountyIds,
                       ensPseudonym |-> normalizeENS(event.params.ensPseudonym),
                       ipfsHash |-> event.params.ipfsHash]
        s1 == save(s, "Commitment", commitment)
        got == getOrCreateHacker(s1, event.params.hacker)
        hacker == [got.hacker EXCEPT
                      !.commitments = Append(@, commitmentId),
                      !.bountyIds = event.params.bountyIds,
                      !.ensPseudonym = normalizeENS(event.params.ensPseudonym),
                      !.ipfsHash = event.params.ipfsHash]
        s2 == save(got.store, "Hacker", hacker)
        s3 == BountiesOfCommitment(s2, event.params.bountyIds, commitmentId)
        stats == getOrCreateGlobalStats(s3)
    IN  save(s3, "GlobalStats", [stats EXCEPT !.totalCommitments = @ + 1])

\* export function handleBountySponsored(event: BountySponsored): void
handleBountySponsored(s, event) ==
    LET sponsorId == event.id
        bountyIdString == BytesToString(event.params.bountyId)
        bounty == getOrCreateBounty(s, bountyIdString)
        sponsor == [id |-> sponsorId, sponsor |-> event.params.sponsor,
                    bounty |-> bounty.id, amount |-> event.params.amount]
        s1 == save(s, "Sponsor", sponsor)
        s2 == save(s1, "Bounty",
                   [bounty EXCEPT !.prizePool = event.params.newTotal,
                                  !.totalSponsors = @ + 1])
        stats == getOrCreateGlobalStats(s2)
    IN  save(s2, "GlobalStats",
             [stats EXCEPT !.totalSponsors = @ + 1,
                           !.totalSponsorVolume = @ + event.params.amount])

\* export function handleHackerBribed(event: HackerBribed): void
handleHackerBribed(s, event) ==
    LET bribeId == event.id
        bountyIdString == event.params.bountyId
        bounty == getOrCreateBounty(s, bountyIdString)
        bribe == [id |-> bribeId, briber |-> event.params.briber,
                  hacker |-> event.params.hacker, bounty |-> bounty.id,
                  bountyId |-> bountyIdString, amount |-> event.params.amount,
                  status |-> "pending"]
        s1 == save(s, "Bribe", bribe)
        got == getOrCreateHacker(s1, event.params.hacker)
        hacker == [got.hacker EXCEPT
                      !.bribesReceived = Append(@, bribeId),
                      !.totalBribesReceived = @ + event.params.amount]
        s2 == save(got.store, "Hacker", hacker)
        s3 == save(s2, "Bounty", bounty)
        stats == getOrCreateGlobalStats(s3)
    IN  save(s3, "GlobalStats",
             [stats EXCEPT !.totalBribes = @ + 1,
                           !.totalBribeVolume = @ + event.params.amount])

\* Whether the next event the subgraph has to handle is of the given name.
NextEventIs(name) ==
    /\ processed < Len(events)
    /\ events[processed + 1].name = name

HandleNewCommitment ==
    /\ NextEventIs("NewCommitment")
    /\ \E undefinedString \in UndefinedStrings :
          store' = handleNewCommitment(store,
                       NewCommitment(processed + 1, undefinedString))
    /\ processed' = processed + 1
    /\ UNCHANGED <<onChain, commitPage>>

HandleBountySponsored ==
    /\ NextEventIs("BountySponsored")
    /\ \E undefinedNumber \in UndefinedNumbers :
          store' = handleBountySponsored(store,
                       BountySponsored(processed + 1, undefinedNumber))
    /\ processed' = processed + 1
    /\ UNCHANGED <<onChain, commitPage>>

HandleHackerBribed ==
    /\ NextEventIs("HackerBribed")
    /\ store' = handleHackerBribed(store, HackerBribed(processed + 1))
    /\ processed' = processed + 1
    /\ UNCHANGED <<onChain, commitPage>>

\* The ledger's three mutating functions emit the events that have handlers;
\* the subgraph handles the log in order, at its own pace.
NextIndexer ==
    \/ Commit
    \/ Sponsor
    \/ Bribe
    \/ HandleNewCommitment
    \/ HandleBountySponsored
    \/ HandleHackerBribed

SpecIndexer == Init /\ [][NextIndexer]_vars

\* The subgraph has handled every event the ledger emitted.
CaughtUp == processed = Len(events)

\* The statistics entity, as a query sees it.
GlobalStats == getOrCreateGlobalStats(store)


\* Whether a committed call is one of the function named op.
IsCommit(c) == c.op = "commitToBounties"
IsSponsor(c) == c.op = "sponsorBounty"

\* C22: once the handlers have handled, in order, every event the ledger
\* emitted, the statistics entity mirrors the ledger: totalCommitments is the
\* number of successful commitToBounties calls, totalBribes the number of
\* recorded bribes, totalBribeVolume the sum of all bribe amounts,
\* totalSponsors the number of successful sponsorBounty calls,
\* totalSponsorVolume the sum of all prize pools, and totalHackers the number
\* of distinct addresses that committed or were bribed.
C22_GlobalStatsMirrorLedger ==
    CaughtUp =>
        /\ GlobalStats.totalCommitments = Len(Calls(IsCommit))
        /\ GlobalStats.totalBribes =
              SetSum([h \in Addr |-> Len(getBribes(h))], Addr)
        /\ GlobalStats.totalBribeVolume = TotalBribes
        /\ GlobalStats.totalSponsors = Len(Calls(IsSponsor))
        /\ GlobalStats.totalSponsorVolume = TotalPools
        /\ GlobalStats.totalHackers =
              Cardinality({h \in Addr : \/ CommitsBy(h) # <<>>
                                        \/ getBribes(h) # <<>>})

\* C22's case: the subgraph has handled the events of a hacker who committed
\* twice and counts that hacker once.
C22_Witness ==
    /\ CaughtUp
    /\ processed = 2
    /\ \E h \in Addr : Len(CommitsBy(h)) = 2
    /\ GlobalStats.totalCommitments = 2
    /\ GlobalStats.totalHackers = 1


\* The positions in the log of the events of the given name.
EventsNamed(name) == {i \in 1..Len(events) : events[i].name = name}

\* Which of the events of its name entry i of the log is: the first, the
\* second, ...
RankOfEvent(i) ==
    Cardinality({j \in 1..i : events[j].name = events[i].name})

\* C23 as claimed: once every event is handled, for every
\* BountySponsored(bountyId, sponsor, amount) event the ledger emitted, the
\* Bounty entity reached from that event has prizePool equal to the ledger's
\* getBounty(bountyId).prizePool and totalSponsors equal to the length of the
\* ledger's sponsors, and it is the entity that NewCommitment events naming
\* that bounty id update.
C23_AsClaimed ==
    CaughtUp =>
        \A i \in EventsNamed("BountySponsored") :
            LET bountyId == events[i].bountyId
                reached == store.Sponsor[i].bounty
            IN  /\ store.Bounty[reached].prizePool = getBounty(bountyId).prizePool
                /\ store.Bounty[reached].totalSponsors =
                      Len(getBounty(bountyId).sponsors)
                /\ reached = getOrCreateBounty(store, bountyId).id

\* C24 as claimed: the ledger keeps one record per exact bounty id string,
\* while the subgraph keeps one Bounty entity per lower-cased id: once every
\* event is handled, every event that names a bounty id, in whatever letter
\* case, has reached the entity under the lower-cased id, whose bountyId field
\* keeps the spelling of the first event that reached it; and the Commitment,
\* Bribe and Sponsor entities are one per log entry.
C24_AsClaimed ==
    /\ \A id \in BountyId : PoolMirrorsCalls(id)
    /\ CaughtUp =>
          /\ \A i \in EventsNamed("NewCommitment") :
                \A k \in 1..Len(events[i].bountyIds) :
                    LET key == toLowerCase(events[i].bountyIds[k])
                    IN  /\ loads(store, "Bounty", key)
                        /\ \E n \in 1..Len(store.Bounty[key].commitments) :
                              store.Bounty[key].commitments[n] = i
          /\ \A i \in EventsNamed("BountySponsored") :
                store.Sponsor[i].bounty = toLowerCase(events[i].bountyId)
          /\ \A i \in EventsNamed("HackerBribed") :
                store.Bribe[i].bounty = toLowerCase(events[i].bountyId)
          /\ \A key \in DOMAIN store.Bounty :
                toLowerCase(store.Bounty[key].bountyId) = key
          /\ DOMAIN store.Commitment = EventsNamed("NewCommitment")
          /\ DOMAIN store.Sponsor = EventsNamed("BountySponsored")
          /\ DOMAIN store.Bribe = EventsNamed("HackerBribed")

\* C25 as claimed: once every event is handled, the Commitment entity of every
\* NewCommitment event carries the lower-cased ensPseudonym that the hacker
\* passed to the commitToBounties call that emitted it, with the bountyIds
\* and the ipfsHash of that call, and the Hacker entity carries those of the
\* hacker's commitment stored in the ledger.
C25_AsClaimed ==
    CaughtUp =>
        /\ \A i \in EventsNamed("NewCommitment") :
              LET c == Calls(IsCommit)[RankOfEvent(i)]
              IN  /\ store.Commitment[i].ensPseudonym =
                        toLowerCase(c.ensPseudonym)
                  /\ store.Commitment[i].bountyIds = c.bountyIds
                  /\ store.Commitment[i].ipfsHash = c.ipfsHash
        /\ \A h \in Addr : CommitsBy(h) # <<>> =>
              LET hacker == store.Hacker[toLowerCase(toHexString(h))]
              IN  /\ hacker.ensPseudonym =
                        toLowerCase(getCommitment(h).ensPseudonym)
                  /\ hacker.bountyIds = getCommitment(h).bountyIds
                  /\ hacker.ipfsHash = getCommitment(h).ipfsHash


-----------------------------------------------------------------------------
(* The commit form *)

\* Ids of bounties the page lists, one toggle button each: the first four.
PageBounties == {"the-graph-hypergraph", "nora-vibecoding", "ens-pseudonyms",
                 "layerzero-omnichain"}

\* What the hacker types into the pseudonym and IPFS fields.
FormTexts == { <<"", "">>, <<"Neo.eth", "QmA">> }

\* What useAccount and useDynamicContext report: no wallet, an address
\* known while the connection is not (yet) up, and a connected wallet, each
\* with or without a logged-in user.
WalletStates ==
    { [address |-> a, user |-> u, wagmiConnected |-> c] :
        a \in {"", "h1"}, u \in BOOLEAN, c \in BOOLEAN } \
    { w \in [address : {""}, user : BOOLEAN, wagmiConnected : {TRUE}] : TRUE }

\* const isConnected = !!address || (!!user && wagmiConnected);
isConnected(page) ==
    page.address # "" \/ (page.user /\ page.wagmiConnected)

\* prev.includes(bountyId)
includes(prev, bountyId) == \E i \in 1..Len(prev) : prev[i] = bountyId

\* prev.filter(id => id !== bountyId)
filter(prev, bountyId) ==
    LET Keep(id) == id # bountyId IN SelectSeq(prev, Keep)

\* Faulty variant of handleBountyToggle: a fourth bounty can be added.
handleBountyToggle_NoLimit(prev, bountyId) ==
    IF includes(prev, bountyId)
    THEN filter(prev, bountyId)
    ELSE Append(prev, bountyId)

\* const handleBountyToggle = (bountyId: string) => setSelectedBounties(prev => ...)
handleBountyToggle(prev, bountyId) ==
    IF includes(prev, bountyId)
    THEN filter(prev, bountyId)
    ELSE IF Len(prev) >= 3
    THEN prev
    ELSE Append(prev, bountyId)

\* The commitToBounties of useCommitToBounties: nothing without a contract
\* on the chain, a writeContract with the arguments otherwise; a new write
\* is not confirmed yet.
useCommitToBounties(page, bountyIds, ensPseudonym, ipfsHash) ==
    IF page.contractAddress = ""
    THEN page
    ELSE [page EXCEPT
            !.written = << [functionName |-> "commitToBounties",
                            bountyIds |-> bountyIds,
                            ensPseudonym |-> ensPseudonym,
                            ipfsHash |-> ipfsHash] >>,
            !.isConfirmed = FALSE]

\* Faulty variant of handleSubmit: the selection is not validated.
handleSubmit_NoSelectionCheck(page) ==
    IF ~isConnected(page)
    THEN page
    ELSE useCommitToBounties(page, page.selectedBounties, page.ensName,
                             page.ipfsHash)

\* const handleSubmit = async (e: React.FormEvent) => ...
handleSubmit(page) ==
    IF ~isConnected(page)
    THEN page
    ELSE IF Len(page.selectedBounties) = 0
    THEN page
    ELSE useCommitToBounties(page, page.selectedBounties, page.ensName,
                             page.ipfsHash)

HandleBountyToggle ==
    /\ \E bountyId \in PageBounties :
          commitPage' = [commitPage EXCEPT !.selectedBounties =
                            handleBountyToggle(@, bountyId)]
    /\ UNCHANGED <<onChain, store, processed>>

HandleInput ==
    /\ \E text \in FormTexts :
          commitPage' = [commitPage EXCEPT !.ensName = text[1],
                                           !.ipfsHash = text[2]]
    /\ UNCHANGED <<onChain, store, processed>>

WalletChanges ==
    /\ \E w \in WalletStates :
          commitPage' = [commitPage EXCEPT !.address = w.address,
                                           !.user = w.user,
                                           !.wagmiConnected = w.wagmiConnected]
    /\ UNCHANGED <<onChain, store, processed>>

\* useChainId: the wallet moves to a chain with or without the contract.
ChainChanges ==
    /\ \E a \in {"", ThisAddr} :
          commitPage' = [commitPage EXCEPT !.contractAddress = a]
    /\ UNCHANGED <<onChain, store, processed>>

HandleSubmit ==
    /\ commitPage' = handleSubmit(commitPage)
    /\ UNCHANGED <<onChain, store, processed>>

\* useWaitForTransactionReceipt: the written transaction is confirmed.
TransactionConfirmed ==
    /\ commitPage.written # <<>>
    /\ ~commitPage.isConfirmed
    /\ commitPage' = [commitPage EXCEPT !.isConfirmed = TRUE]
    /\ UNCHANGED <<onChain, store, processed>>

\* useEffect(() => { if (isConfirmed) { ...reset form... } },
\*           [isConfirmed, selectedBounties.length])
ResetForm ==
    /\ commitPage.isConfirmed
    /\ commitPage' = [commitPage EXCEPT !.selectedBounties = <<>>,
                                        !.ensName = "", !.ipfsHash = ""]
    /\ UNCHANGED <<onChain, store, processed>>

NextForm ==
    \/ HandleBountyToggle
    \/ HandleInput
    \/ WalletChanges
    \/ ChainChanges
    \/ HandleSubmit
    \/ TransactionConfirmed
    \/ ResetForm

SpecForm == Init /\ [][NextForm]_vars

\* The ids of a selection.
Selected(page) == {page.selectedBounties[i] : i \in 1..Len(page.selectedBounties)}

====
